---- MODULE Spec2Model ----
(***************************************************************************)
(* Frequent-itemset mining (apriori, eclat) and association-rule           *)
(* generation of src/algorithms/apriori.py and src/algorithms/eclat.py,    *)
(* driven as in src/app.py: the apriori harness, then the eclat harness,   *)
(* on the same transactions and thresholds.                                *)
(*                                                                         *)
(* Numbers.  Python floats are modelled by exact rationals                 *)
(* [num |-> a, den |-> b] with b > 0; a support is count/n kept            *)
(* unreduced.  The threshold int(min_support * n + 1e-9) is computed       *)
(* exactly, the 1e-9 included.  time_ms (a wall-clock reading) is not      *)
(* modelled.  A rule list is a bag: the order of a rule list depends on    *)
(* hash iteration order, its content and multiplicities do not.            *)
(***************************************************************************)
EXTENDS Bags, FiniteSets, Integers, Sequences, TLC

\* ------------------------------------------------------------------ bounds
MaxTx == 3                    \* longest transaction list explored

\* Item identifiers (opaque, ordered as the sort key of eclat orders them).
Items == {1, 2, 3}

\* 1e-9 of "int(min_support * n + 1e-9)" is 1 / EpsDen.
EpsDen == 1000000000

\* min_support values tried: 0, 1/2, 2/3, 1, and a value less than 1e-9
\* below 1.
MinSupports ==
  { [num |-> 0, den |-> 1], [num |-> 1, den |-> 2], [num |-> 2, den |-> 3],
    [num |-> 1, den |-> 1], [num |-> 2147483646, den |-> 2147483647] }

\* min_confidence values tried: 0 and 2/3.
MinConfidences == { [num |-> 0, den |-> 1], [num |-> 2, den |-> 3] }

\* Support values of the arbitrary mappings handed to the rule generator:
\* 0, 1/2, 1.
SupportValues ==
  { [num |-> 0, den |-> 2], [num |-> 1, den |-> 2], [num |-> 2, den |-> 2] }

\* ------------------------------------------------------------ rationals
Rat(a, b) == [num |-> a, den |-> b]

RatLt(x, y) == x.num * y.den < y.num * x.den
RatLeq(x, y) == x.num * y.den <= y.num * x.den
RatEq(x, y) == x.num * y.den = y.num * x.den
RatMul(x, y) == Rat(x.num * y.num, x.den * y.den)
\* x / y for y # 0
RatDiv(x, y) == Rat(x.num * y.den, x.den * y.num)

Max(a, b) == IF a >= b THEN a ELSE b

\* <<q, r>> with n * num = q * den + r and 0 <= r < den, for 0 <= num <= den,
\* by n additions (no intermediate value exceeds den).
RECURSIVE ScaledProduct(_, _, _)
ScaledProduct(num, den, n) ==
  IF n = 0 THEN <<0, 0>>
  ELSE LET p == ScaledProduct(num, den, n - 1)
       IN  IF num = den THEN <<p[1] + 1, p[2]>>
           ELSE IF p[2] >= den - num THEN <<p[1] + 1, p[2] - (den - num)>>
           ELSE <<p[1], p[2] + num>>

\* floor(ms * n), exactly.
FloorProduct(ms, n) == ScaledProduct(ms.num, ms.den, n)[1]

\* int(ms * n + 1e-9): the fractional part r/den of ms * n carries into the
\* next integer iff r/den + 1/EpsDen >= 1, i.e. den - r <= den \div EpsDen.
IntProductPlusEps(ms, n) ==
  LET p == ScaledProduct(ms.num, ms.den, n)
  IN  IF ms.den - p[2] <= ms.den \div EpsDen THEN p[1] + 1 ELSE p[1]

\* ms <= c/n and c/n <= ms for a (possibly large) ms, without overflow.
FractionLeqSupport(ms, c, n) ==
  LET p == ScaledProduct(ms.num, ms.den, n)
  IN  p[1] < c \/ (p[1] = c /\ p[2] = 0)

\* --------------------------------------------------------------- helpers
Itemsets == SUBSET Items \ {{}}

EmptyMap == [x \in {} |-> 0]

\* dict.update
Update(d, e) ==
  [x \in DOMAIN d \cup DOMAIN e |-> IF x \in DOMAIN e THEN e[x] ELSE d[x]]

\* itertools.combinations(S, r) as frozensets
Combinations(S, r) == {A \in SUBSET S : Cardinality(A) = r}

\* number of transactions t of txs with c.issubset(t)
CountSupersets(txs, c) ==
  Cardinality({i \in DOMAIN txs : c \subseteq txs[i]})

SeqsUpTo(S, m) == UNION {[1..len -> S] : len \in 0..m}

VARIABLES
  transactions,       \* list[set]: the transaction store
  min_support,        \* the caller's min_support
  min_confidence,     \* the caller's min_confidence
  pc,                 \* position of the run
  fault,              \* "none" or the exception raised
  min_support_count,  \* the running miner's absolute threshold
  L, Lk, k,           \* apriori: accumulated counts, current level, level size
  candidates,         \* apriori: candidates counted in the last iteration
  results,            \* eclat: itemset -> TID-set
  stack,              \* eclat: activation records of dfs, innermost last
  apriori_freq,       \* run_apriori_with_timing()["frequent_itemsets"]
  apriori_rules,      \* run_apriori_with_timing()["rules"]
  eclat_freq,         \* run_eclat_with_timing()["frequent_itemsets"]
  eclat_rules         \* run_eclat_with_timing()["rules"]

vars == <<transactions, min_support, min_confidence, pc, fault,
          min_support_count, L, Lk, k, candidates, results, stack,
          apriori_freq, apriori_rules, eclat_freq, eclat_rules>>

inputs == <<transactions, min_support, min_confidence>>
aprioriVars == <<L, Lk, k, candidates>>
eclatVars == <<results, stack>>
outputs == <<apriori_freq, apriori_rules, eclat_freq, eclat_rules>>

n == Len(transactions)


\* ------------------------------------------------ generate_association_rules
ZeroDivisionError == "ZeroDivisionError"

\* x / y as Python evaluates it: a fault when y == 0
Divide(x, y) ==
  IF y.num = 0 THEN [ok |-> FALSE, val |-> Rat(0, 1)]
  ELSE [ok |-> TRUE, val |-> RatDiv(x, y)]

Skip == [kind |-> "skip"]
Raise == [kind |-> "fault"]
Emit(rule) == [kind |-> "emit", rule |-> rule]

\* Variant: range(1, len(items) - 1), the largest antecedents are not visited.
SplitsVisitedShortRange(freq_itemsets) ==
  UNION { { <<itemset, antecedent>> :
              antecedent \in UNION { Combinations(itemset, r) :
                                       r \in 1..(Cardinality(itemset) - 2) } } :
          itemset \in {d \in DOMAIN freq_itemsets : Cardinality(d) >= 2} }

\* The (itemset, antecedent) pairs the two nested loops visit: every key of
\* size >= 2, every r in range(1, len(items)), every r-combination.
SplitsVisited(freq_itemsets) ==
  UNION { { <<itemset, antecedent>> :
              antecedent \in UNION { Combinations(itemset, r) :
                                       r \in 1..(Cardinality(itemset) - 1) } } :
          itemset \in {d \in DOMAIN freq_itemsets : Cardinality(d) >= 2} }

\* Variant: the test "confidence < min_confidence" is missing.
AprioriSplitNoConfidenceFilter(freq_itemsets, min_conf, itemset, antecedent) ==
  LET supp_XY == freq_itemsets[itemset]
      consequent == itemset \ antecedent
  IN  IF consequent = {} THEN Skip
      ELSE IF antecedent \notin DOMAIN freq_itemsets
              \/ consequent \notin DOMAIN freq_itemsets THEN Skip
      ELSE
        LET supp_X == freq_itemsets[antecedent]
            supp_Y == freq_itemsets[consequent]
            confidence == Divide(supp_XY, supp_X)
            denom == RatMul(supp_X, supp_Y)
            lift == IF denom.num > 0 THEN Divide(supp_XY, denom)
                    ELSE [ok |-> TRUE, val |-> Rat(0, 1)]
        IN  IF supp_X.num = 0 THEN Skip
            ELSE IF ~confidence.ok THEN Raise
            ELSE IF ~lift.ok THEN Raise
            ELSE Emit([antecedent |-> antecedent, consequent |-> consequent,
                       support |-> supp_XY, confidence |-> confidence.val,
                       lift |-> lift.val])

\* Variant: the rule reports the antecedent's support instead of supp_XY.
AprioriSplitAntecedentSupport(freq_itemsets, min_conf, itemset, antecedent) ==
  LET supp_XY == freq_itemsets[itemset]
      consequent == itemset \ antecedent
  IN  IF consequent = {} THEN Skip
      ELSE IF antecedent \notin DOMAIN freq_itemsets
              \/ consequent \notin DOMAIN freq_itemsets THEN Skip
      ELSE
        LET supp_X == freq_itemsets[antecedent]
            supp_Y == freq_itemsets[consequent]
            confidence == Divide(supp_XY, supp_X)
            denom == RatMul(supp_X, supp_Y)
            lift == IF denom.num > 0 THEN Divide(supp_XY, denom)
                    ELSE [ok |-> TRUE, val |-> Rat(0, 1)]
        IN  IF supp_X.num = 0 THEN Skip
            ELSE IF ~confidence.ok THEN Raise
            ELSE IF RatLt(confidence.val, min_conf) THEN Skip
            ELSE IF ~lift.ok THEN Raise
            ELSE Emit([antecedent |-> antecedent, consequent |-> consequent,
                       support |-> supp_X, confidence |-> confidence.val,
                       lift |-> lift.val])

\* Variant: the lift is computed without the test "supp_X * supp_Y > 0".
AprioriSplitUnguardedLift(freq_itemsets, min_conf, itemset, antecedent) ==
  LET supp_XY == freq_itemsets[itemset]
      consequent == itemset \ antecedent
  IN  IF consequent = {} THEN Skip
      ELSE IF antecedent \notin DOMAIN freq_itemsets
              \/ consequent \notin DOMAIN freq_itemsets THEN Skip
      ELSE
        LET supp_X == freq_itemsets[antecedent]
            supp_Y == freq_itemsets[consequent]
            confidence == Divide(supp_XY, supp_X)
            denom == RatMul(supp_X, supp_Y)
            lift == Divide(supp_XY, denom)
        IN  IF supp_X.num = 0 THEN Skip
            ELSE IF ~confidence.ok THEN Raise
            ELSE IF RatLt(confidence.val, min_conf) THEN Skip
            ELSE IF ~lift.ok THEN Raise
            ELSE Emit([antecedent |-> antecedent, consequent |-> consequent,
                       support |-> supp_XY, confidence |-> confidence.val,
                       lift |-> lift.val])

\* apriori.py: the body of the innermost loop for one antecedent
AprioriSplit(freq_itemsets, min_conf, itemset, antecedent) ==
  LET supp_XY == freq_itemsets[itemset]
      consequent == itemset \ antecedent
  IN  IF consequent = {} THEN Skip
      ELSE IF antecedent \notin DOMAIN freq_itemsets
              \/ consequent \notin DOMAIN freq_itemsets THEN Skip
      ELSE
        LET supp_X == freq_itemsets[antecedent]
            supp_Y == freq_itemsets[consequent]
            confidence == Divide(supp_XY, supp_X)
            denom == RatMul(supp_X, supp_Y)
            lift == IF denom.num > 0 THEN Divide(supp_XY, denom)
                    ELSE [ok |-> TRUE, val |-> Rat(0, 1)]
        IN  IF supp_X.num = 0 THEN Skip
            ELSE IF ~confidence.ok THEN Raise
            ELSE IF RatLt(confidence.val, min_conf) THEN Skip
            ELSE IF ~lift.ok THEN Raise
            ELSE Emit([antecedent |-> antecedent, consequent |-> consequent,
                       support |-> supp_XY, confidence |-> confidence.val,
                       lift |-> lift.val])

\* apriori.py generate_association_rules: the rules appended, each with the
\* number of times it is appended, or the fault raised
AprioriGenerateAssociationRules(freq_itemsets, min_conf) ==
  LET visited == SplitsVisited(freq_itemsets)
      out(p) == AprioriSplit(freq_itemsets, min_conf, p[1], p[2])
      emitted == {p \in visited : out(p).kind = "emit"}
      rules == {out(p).rule : p \in emitted}
  IN  IF \E p \in visited : out(p).kind = "fault"
      THEN [fault |-> ZeroDivisionError, rules |-> EmptyBag]
      ELSE [fault |-> "none",
            rules |-> [r \in rules |->
                         Cardinality({p \in emitted : out(p).rule = r})]]

\* eclat.py: the body of the innermost loop for one antecedent
EclatSplit(freq_itemsets, min_conf, itemset, antecedent) ==
  LET supp_XY == freq_itemsets[itemset]
      consequent == itemset \ antecedent
  IN  IF consequent = {} THEN Skip
      ELSE IF antecedent \notin DOMAIN freq_itemsets
              \/ consequent \notin DOMAIN freq_itemsets THEN Skip
      ELSE
        LET supp_X == freq_itemsets[antecedent]
            supp_Y == freq_itemsets[consequent]
            confidence == Divide(supp_XY, supp_X)
            denom == RatMul(supp_X, supp_Y)
            lift == IF denom.num > 0 THEN Divide(supp_XY, denom)
                    ELSE [ok |-> TRUE, val |-> Rat(0, 1)]
        IN  IF supp_X.num = 0 THEN Skip
            ELSE IF ~confidence.ok THEN Raise
            ELSE IF RatLt(confidence.val, min_conf) THEN Skip
            ELSE IF ~lift.ok THEN Raise
            ELSE Emit([antecedent |-> antecedent, consequent |-> consequent,
                       support |-> supp_XY, confidence |-> confidence.val,
                       lift |-> lift.val])

\* eclat.py generate_association_rules
EclatGenerateAssociationRules(freq_itemsets, min_conf) ==
  LET visited == SplitsVisited(freq_itemsets)
      out(p) == EclatSplit(freq_itemsets, min_conf, p[1], p[2])
      emitted == {p \in visited : out(p).kind = "emit"}
      rules == {out(p).rule : p \in emitted}
  IN  IF \E p \in visited : out(p).kind = "fault"
      THEN [fault |-> ZeroDivisionError, rules |-> EmptyBag]
      ELSE [fault |-> "none",
            rules |-> [r \in rules |->
                         Cardinality({p \in emitted : out(p).rule = r})]]

\* ------------------------------------------------------------------ apriori
\* Variant: the threshold is not clamped to 1.
AprioriMinSupportCountNoClamp(ms, len) == IntProductPlusEps(ms, len)

\* apriori.py line 19
AprioriMinSupportCount(ms, len) == Max(1, IntProductPlusEps(ms, len))

\* apriori.py lines 22-25: item -> number of transactions holding it
ItemCounts(txs) ==
  [item \in UNION {txs[i] : i \in DOMAIN txs} |->
     Cardinality({i \in DOMAIN txs : item \in txs[i]})]

\* apriori.py line 28
FrequentOneItemsets(txs, count) ==
  LET item_counts == ItemCounts(txs)
      frequent == {i \in DOMAIN item_counts : item_counts[i] >= count}
  IN  [s \in {{i} : i \in frequent} |->
         item_counts[CHOOSE i \in frequent : s = {i}]]

\* Variant: the join without the prune by the (k-1)-subsets.
AprioriCandidatesNoPrune(prev, size) ==
  LET prev_itemsets == DOMAIN prev
      pairs == {p \in prev_itemsets \X prev_itemsets : p[1] # p[2]}
      unions == {p[1] \cup p[2] : p \in pairs}
  IN  {u \in unions : Cardinality(u) = size}

\* apriori.py lines 37-48: join, then prune by the (k-1)-subsets
AprioriCandidates(prev, size) ==
  LET prev_itemsets == DOMAIN prev
      pairs == {p \in prev_itemsets \X prev_itemsets : p[1] # p[2]}
      unions == {p[1] \cup p[2] : p \in pairs}
  IN  {u \in unions :
         /\ Cardinality(u) = size
         /\ \A subset \in Combinations(u, size - 1) : subset \in prev_itemsets}

\* Variant: the filter is off by one (cnt >= min_support_count - 1).
FrequentCandidatesOffByOne(txs, cands, count) ==
  LET counts == [c \in cands |-> CountSupersets(txs, c)]
      kept == {c \in cands : counts[c] >= count - 1}
  IN  [c \in kept |-> counts[c]]

\* apriori.py lines 51-58: count the candidates, keep the frequent ones
FrequentCandidates(txs, cands, count) ==
  LET counts == [c \in cands |-> CountSupersets(txs, c)]
      kept == {c \in cands : counts[c] >= count}
  IN  [c \in kept |-> counts[c]]

\* Variant: an empty transaction list is rejected instead of answered by {}.
AprioriBeginRejectsEmpty ==
  /\ pc = "start"
  /\ IF n = 0
     THEN /\ fault' = "ValueError"
          /\ pc' = "raised"
          /\ UNCHANGED <<min_support_count, aprioriVars, apriori_freq>>
     ELSE /\ min_support_count' = AprioriMinSupportCount(min_support, n)
          /\ Lk' = FrequentOneItemsets(transactions, min_support_count')
          /\ L' = Update(EmptyMap, Lk')
          /\ k' = 2
          /\ pc' = "apriori_loop"
          /\ UNCHANGED <<candidates, apriori_freq, fault>>
  /\ UNCHANGED <<inputs, eclatVars, apriori_rules, eclat_freq, eclat_rules>>

\* apriori.py lines 15-30
AprioriBegin ==
  /\ pc = "start"
  /\ IF n = 0
     THEN /\ apriori_freq' = EmptyMap
          /\ pc' = "apriori_rules"
          /\ UNCHANGED <<min_support_count, aprioriVars>>
     ELSE /\ min_support_count' = AprioriMinSupportCount(min_support, n)
          /\ Lk' = FrequentOneItemsets(transactions, min_support_count')
          /\ L' = Update(EmptyMap, Lk')
          /\ k' = 2
          /\ pc' = "apriori_loop"
          /\ UNCHANGED <<candidates, apriori_freq>>
  /\ UNCHANGED <<inputs, fault, eclatVars, apriori_rules, eclat_freq, eclat_rules>>

\* apriori.py lines 32-60: one iteration of "while Lk"
AprioriLevel ==
  /\ pc = "apriori_loop"
  /\ DOMAIN Lk # {}
  /\ candidates' = AprioriCandidates(Lk, k)
  /\ Lk' = FrequentCandidates(transactions, candidates', min_support_count)
  /\ L' = Update(L, Lk')
  /\ k' = k + 1
  /\ UNCHANGED <<inputs, pc, fault, min_support_count, eclatVars, outputs>>

\* apriori.py lines 32, 63-64: the loop ends, counts become supports
AprioriReturn ==
  /\ pc = "apriori_loop"
  /\ DOMAIN Lk = {}
  /\ IF DOMAIN L # {} /\ n = 0
     THEN /\ fault' = ZeroDivisionError
          /\ pc' = "raised"
          /\ UNCHANGED apriori_freq
     ELSE /\ apriori_freq' = [itemset \in DOMAIN L |-> Rat(L[itemset], n)]
          /\ pc' = "apriori_rules"
          /\ UNCHANGED fault
  /\ UNCHANGED <<inputs, min_support_count, aprioriVars, eclatVars,
                 apriori_rules, eclat_freq, eclat_rules>>

\* apriori.py lines 113-119 (run_apriori_with_timing after the miner returned)
AprioriRules ==
  /\ pc = "apriori_rules"
  /\ LET out == AprioriGenerateAssociationRules(apriori_freq, min_confidence)
     IN  /\ fault' = out.fault
         /\ apriori_rules' = out.rules
         /\ pc' = IF out.fault = "none" THEN "eclat_start" ELSE "raised"
  /\ UNCHANGED <<inputs, min_support_count, aprioriVars, eclatVars,
                 apriori_freq, eclat_freq, eclat_rules>>

\* -------------------------------------------------------------------- eclat
\* Variant: the 1e-9 is missing from the threshold.
EclatMinSupportCountNoEps(ms, len) == Max(1, FloorProduct(ms, len))

\* eclat.py line 19
EclatMinSupportCount(ms, len) == Max(1, IntProductPlusEps(ms, len))

\* eclat.py lines 22-25: frozenset([item]) -> TIDs, TIDs counted from 0
Tidsets(txs) ==
  [s \in {{item} : item \in UNION {txs[i] : i \in DOMAIN txs}} |->
     {tid \in 0..(Len(txs) - 1) : s \subseteq txs[tid + 1]}]

\* eclat.py lines 28-31
FrequentSingletons(txs, count) ==
  LET tidsets == Tidsets(txs)
  IN  [s \in {t \in DOMAIN tidsets : Cardinality(tidsets[t]) >= count} |->
         tidsets[s]]

\* list(x[0])[0] of eclat.py line 57: the item of a singleton
SortKey(itemset) == CHOOSE item \in itemset : TRUE

\* eclat.py lines 56-57: sorted(frequent_singletons.items(), key=...)
RECURSIVE SortedSingletons(_)
SortedSingletons(fs) ==
  IF DOMAIN fs = {} THEN <<>>
  ELSE LET first == CHOOSE s \in DOMAIN fs :
                      \A t \in DOMAIN fs : SortKey(s) <= SortKey(t)
       IN  << <<first, fs[first]>> >>
             \o SortedSingletons([s \in DOMAIN fs \ {first} |-> fs[s]])

\* eclat.py lines 44-49: the itemset and the TID-set of the extension
NewItemset(prefix, itemset_i) ==
  IF prefix # {} THEN prefix \cup itemset_i ELSE itemset_i

\* Variant: the TID-sets are united instead of intersected.
NewTidsUnion(prefix, prefix_tids, tids_i) ==
  IF prefix # {} THEN prefix_tids \cup tids_i ELSE tids_i

\* Variant: the candidate's TID-set is taken without the prefix's.
NewTidsIgnorePrefix(prefix, prefix_tids, tids_i) == tids_i

NewTids(prefix, prefix_tids, tids_i) ==
  IF prefix # {} THEN prefix_tids \cap tids_i ELSE tids_i

\* an activation of dfs(prefix, prefix_tids, items) about to run iteration i
Frame(prefix, prefix_tids, items, i) ==
  [prefix |-> prefix, prefix_tids |-> prefix_tids, items |-> items, i |-> i]

\* eclat.py lines 15-33, 56-59: up to the outermost call of dfs
EclatBegin ==
  /\ pc = "eclat_start"
  /\ IF n = 0
     THEN /\ eclat_freq' = EmptyMap
          /\ pc' = "eclat_rules"
          /\ UNCHANGED <<min_support_count, eclatVars>>
     ELSE /\ min_support_count' = EclatMinSupportCount(min_support, n)
          /\ results' = EmptyMap
          /\ stack' = << Frame({}, 0..(n - 1),
                               SortedSingletons(FrequentSingletons(
                                 transactions, min_support_count')), 0) >>
          /\ pc' = "eclat_dfs"
          /\ UNCHANGED eclat_freq
  /\ UNCHANGED <<inputs, fault, aprioriVars, apriori_freq, apriori_rules,
                 eclat_rules>>

\* eclat.py lines 42-53: one iteration of the loop of the innermost dfs
EclatDfsIterate ==
  /\ pc = "eclat_dfs"
  /\ stack # <<>>
  /\ LET top == stack[Len(stack)]
         i == top.i
     IN  /\ i < Len(top.items)
         /\ LET itemset_i == top.items[i + 1][1]
                tids_i == top.items[i + 1][2]
                new_itemset == NewItemset(top.prefix, itemset_i)
                new_tids == NewTids(top.prefix, top.prefix_tids, tids_i)
                resumed == [stack EXCEPT ![Len(stack)].i = i + 1]
            IN  IF Cardinality(new_tids) >= min_support_count
                THEN /\ results' = Update(results,
                                          [s \in {new_itemset} |-> new_tids])
                     /\ stack' = Append(resumed,
                                   Frame(new_itemset, new_tids,
                                         SubSeq(top.items, i + 2, Len(top.items)),
                                         0))
                ELSE /\ stack' = resumed
                     /\ UNCHANGED results
  /\ UNCHANGED <<inputs, pc, fault, min_support_count, aprioriVars, outputs>>

\* eclat.py line 42: range(len(items)) is exhausted, dfs returns to its caller
EclatDfsReturn ==
  /\ pc = "eclat_dfs"
  /\ stack # <<>>
  /\ stack[Len(stack)].i = Len(stack[Len(stack)].items)
  /\ stack' = SubSeq(stack, 1, Len(stack) - 1)
  /\ UNCHANGED <<inputs, pc, fault, min_support_count, aprioriVars, results,
                 outputs>>

\* eclat.py lines 61-62: TID-sets become supports
EclatReturn ==
  /\ pc = "eclat_dfs"
  /\ stack = <<>>
  /\ IF DOMAIN results # {} /\ n = 0
     THEN /\ fault' = ZeroDivisionError
          /\ pc' = "raised"
          /\ UNCHANGED eclat_freq
     ELSE /\ eclat_freq' = [itemset \in DOMAIN results |->
                              Rat(Cardinality(results[itemset]), n)]
          /\ pc' = "eclat_rules"
          /\ UNCHANGED fault
  /\ UNCHANGED <<inputs, min_support_count, aprioriVars, eclatVars,
                 apriori_freq, apriori_rules, eclat_rules>>

\* Variant: the harness hands min_support to the rule generator.
EclatRulesWithMinSupport ==
  /\ pc = "eclat_rules"
  /\ LET out == EclatGenerateAssociationRules(eclat_freq, min_support)
     IN  /\ fault' = out.fault
         /\ eclat_rules' = out.rules
         /\ pc' = IF out.fault = "none" THEN "done" ELSE "raised"
  /\ UNCHANGED <<inputs, min_support_count, aprioriVars, eclatVars,
                 apriori_freq, apriori_rules, eclat_freq>>

\* eclat.py lines 104-110 (run_eclat_with_timing after the miner returned)
EclatRules ==
  /\ pc = "eclat_rules"
  /\ LET out == EclatGenerateAssociationRules(eclat_freq, min_confidence)
     IN  /\ fault' = out.fault
         /\ eclat_rules' = out.rules
         /\ pc' = IF out.fault = "none" THEN "done" ELSE "raised"
  /\ UNCHANGED <<inputs, min_support_count, aprioriVars, eclatVars,
                 apriori_freq, apriori_rules, eclat_freq>>

\* ------------------------------------------------------------ specification
\* app.py lines 206-218: both harnesses on the cleaned transactions and the
\* two thresholds
Init ==
  /\ transactions \in SeqsUpTo(SUBSET Items, MaxTx)
  /\ min_support \in MinSupports
  /\ min_confidence \in MinConfidences
  /\ pc = "start"
  /\ fault = "none"
  /\ min_support_count = 0
  /\ L = EmptyMap
  /\ Lk = EmptyMap
  /\ k = 0
  /\ candidates = {}
  /\ results = EmptyMap
  /\ stack = <<>>
  /\ apriori_freq = EmptyMap
  /\ apriori_rules = EmptyBag
  /\ eclat_freq = EmptyMap
  /\ eclat_rules = EmptyBag

Next ==
  \/ AprioriBegin
  \/ AprioriLevel
  \/ AprioriReturn
  \/ AprioriRules
  \/ EclatBegin
  \/ EclatDfsIterate
  \/ EclatDfsReturn
  \/ EclatReturn
  \/ EclatRules

Spec == Init /\ [][Next]_vars

\* ------------------------------------- the rule generator on any mapping
\* Every mapping from itemsets to supports in [0, 1], not only those a miner
\* returns.
Mappings == UNION {[K -> SupportValues] : K \in SUBSET Itemsets}

InitRules ==
  /\ transactions = <<>>
  /\ min_support = Rat(0, 1)
  /\ min_confidence \in MinConfidences
  /\ pc = "rules_input"
  /\ fault = "none"
  /\ min_support_count = 0
  /\ L = EmptyMap
  /\ Lk = EmptyMap
  /\ k = 0
  /\ candidates = {}
  /\ results = EmptyMap
  /\ stack = <<>>
  /\ apriori_freq \in Mappings
  /\ eclat_freq = apriori_freq
  /\ apriori_rules = EmptyBag
  /\ eclat_rules = EmptyBag

\* apriori.generate_association_rules(freq_itemsets, min_confidence)
CallAprioriGenerate ==
  /\ pc = "rules_input"
  /\ LET out == AprioriGenerateAssociationRules(apriori_freq, min_confidence)
     IN  /\ fault' = out.fault
         /\ apriori_rules' = out.rules
         /\ pc' = IF out.fault = "none" THEN "apriori_generated" ELSE "raised"
  /\ UNCHANGED <<inputs, min_support_count, aprioriVars, eclatVars,
                 apriori_freq, eclat_freq, eclat_rules>>

\* eclat.generate_association_rules(freq_itemsets, min_confidence)
CallEclatGenerate ==
  /\ pc = "rules_input"
  /\ LET out == EclatGenerateAssociationRules(eclat_freq, min_confidence)
     IN  /\ fault' = out.fault
         /\ eclat_rules' = out.rules
         /\ pc' = IF out.fault = "none" THEN "eclat_generated" ELSE "raised"
  /\ UNCHANGED <<inputs, min_support_count, aprioriVars, eclatVars,
                 apriori_freq, apriori_rules, eclat_freq>>

NextRules ==
  \/ CallAprioriGenerate
  \/ CallEclatGenerate

SpecRules == InitRules /\ [][NextRules]_vars

\* The rule generator on the mappings the miners return and on any mapping.
InitAll == Init \/ InitRules

NextAll == Next \/ NextRules

SpecAll == InitAll /\ [][NextAll]_vars

\* ================================================================== claims
\* Positions of a run at which a result has been returned.
MinersReturned == pc \in {"eclat_rules", "done"}
AprioriRulesReturned ==
  pc \in {"eclat_start", "eclat_dfs", "eclat_rules", "done", "apriori_generated"}
EclatRulesReturned == pc \in {"done", "eclat_generated"}

\* |{t : I is a subset of t}|
Occurrences(I) ==
  Cardinality({i \in 1..n : I \subseteq transactions[i]})

\* max(1, floor(min_support * n)) and max(1, floor(min_support * n + 1e-9))
FloorThreshold == Max(1, FloorProduct(min_support, n))
EpsThreshold == Max(1, IntProductPlusEps(min_support, n))

\* freq has as keys exactly the itemsets occurring at least t times, each
\* mapped to count/n
ExactlyTheFrequent(freq, t) ==
  /\ DOMAIN freq = {I \in Itemsets : Occurrences(I) >= t}
  /\ \A I \in DOMAIN freq : freq[I] = Rat(Occurrences(I), n)

\* C1: apriori and eclat return mappings with the same key set and the same
\* support for every key, for every transaction list and min_support.
C1_MinersAgree ==
  MinersReturned =>
    /\ DOMAIN apriori_freq = DOMAIN eclat_freq
    /\ \A I \in DOMAIN apriori_freq : apriori_freq[I] = eclat_freq[I]

\* A list with a repeated transaction and transactions of different sizes,
\* mined to a mapping that has a key of two or more items.
C1_Witness ==
  /\ MinersReturned
  /\ \E i, j \in 1..n : i # j /\ transactions[i] = transactions[j]
  /\ \E i, j \in 1..n :
       Cardinality(transactions[i]) # Cardinality(transactions[j])
  /\ \E I \in DOMAIN apriori_freq : Cardinality(I) >= 2

\* C2 as stated: for n >= 1 the keys of both mappings are exactly the
\* itemsets occurring at least max(1, floor(min_support * n)) times, each
\* mapped to count/n.
C2_ExactFloorThreshold ==
  (MinersReturned /\ n >= 1) =>
    /\ ExactlyTheFrequent(apriori_freq, FloorThreshold)
    /\ ExactlyTheFrequent(eclat_freq, FloorThreshold)

\* C2 amended: for n >= 1 the keys of both mappings are exactly the itemsets
\* occurring at least max(1, floor(min_support * n + 1e-9)) times, each
\* mapped to count/n; when min_support * n < 1 every non-empty subset of a
\* transaction is a key; no key has zero occurrences.
C2_ExactEpsThreshold ==
  (MinersReturned /\ n >= 1) =>
    /\ ExactlyTheFrequent(apriori_freq, EpsThreshold)
    /\ ExactlyTheFrequent(eclat_freq, EpsThreshold)
    /\ FloorProduct(min_support, n) = 0 =>
         \A i \in 1..n : \A I \in SUBSET transactions[i] \ {{}} :
           I \in DOMAIN apriori_freq /\ I \in DOMAIN eclat_freq
    /\ \A I \in DOMAIN apriori_freq \cup DOMAIN eclat_freq : Occurrences(I) > 0

\* The 1e-9 lifts the threshold above floor(min_support * n): an itemset
\* that occurs floor(min_support * n) times is left out, another is a key.
C2_Witness ==
  /\ MinersReturned
  /\ n >= 1
  /\ EpsThreshold > FloorThreshold
  /\ \E I \in Itemsets :
       Occurrences(I) = FloorThreshold /\ I \notin DOMAIN apriori_freq
  /\ DOMAIN apriori_freq # {}

DownwardClosed(freq) ==
  \A B \in DOMAIN freq : \A A \in SUBSET B \ {{}} :
    A \in DOMAIN freq /\ RatLeq(freq[B], freq[A])

\* C3: both mappings are downward closed: every non-empty subset A of a key
\* B is a key, and support(A) >= support(B).
C3_DownwardClosed ==
  /\ pc \in {"apriori_rules", "eclat_start", "eclat_dfs"} \cup {"eclat_rules", "done"}
       => DownwardClosed(apriori_freq)
  /\ MinersReturned => DownwardClosed(eclat_freq)

\* A key of three items with a subset of strictly larger support.
C3_Witness ==
  /\ MinersReturned
  /\ \E B \in DOMAIN eclat_freq :
       /\ Cardinality(B) = 3
       /\ \E A \in SUBSET B \ {{}} : RatLt(eclat_freq[B], eclat_freq[A])

\* C4 as stated: for n >= 1 and min_support in (0, 1] every support s in
\* either mapping satisfies min_support <= s <= 1.
C4_SupportAtLeastMinSupport ==
  (MinersReturned /\ n >= 1 /\ min_support.num > 0) =>
    \A freq \in {apriori_freq, eclat_freq} : \A I \in DOMAIN freq :
      /\ FractionLeqSupport(min_support, freq[I].num, freq[I].den)
      /\ freq[I].num <= freq[I].den

\* C4 amended: for n >= 1 and min_support in (0, 1] every support s in
\* either mapping satisfies min_support_count / n <= s <= 1, where
\* min_support_count = max(1, floor(min_support * n + 1e-9)).
C4_SupportAtLeastCountFraction ==
  (MinersReturned /\ n >= 1 /\ min_support.num > 0) =>
    \A freq \in {apriori_freq, eclat_freq} : \A I \in DOMAIN freq :
      /\ freq[I].den = n
      /\ RatLeq(Rat(EpsThreshold, n), freq[I])
      /\ freq[I].num <= freq[I].den

\* A key whose support is below the caller's min_support, and at the count
\* threshold exactly.
C4_Witness ==
  /\ MinersReturned
  /\ n >= 1
  /\ min_support.num > 0
  /\ \E I \in DOMAIN apriori_freq :
       /\ ~FractionLeqSupport(min_support, apriori_freq[I].num, n)
       /\ apriori_freq[I].num = EpsThreshold

\* The rules a generator has returned, with the mapping it was given.
RulesReturned ==
  (IF AprioriRulesReturned
     THEN {<<r, apriori_freq>> : r \in BagToSet(apriori_rules)} ELSE {})
  \cup
  (IF EclatRulesReturned
     THEN {<<r, eclat_freq>> : r \in BagToSet(eclat_rules)} ELSE {})

\* The (mapping, bag of rules) pairs of the generator calls that returned.
CallsReturned ==
  (IF AprioriRulesReturned THEN {<<apriori_freq, apriori_rules>>} ELSE {})
  \cup (IF EclatRulesReturned THEN {<<eclat_freq, eclat_rules>>} ELSE {})

\* C5: every rule returned has confidence >= min_confidence and lift >= 0.
C5_ConfidenceAndLiftBound ==
  \A p \in RulesReturned :
    /\ p[1].confidence.den > 0 /\ p[1].lift.den > 0
    /\ RatLeq(min_confidence, p[1].confidence)
    /\ RatLeq(Rat(0, 1), p[1].lift)

\* min_confidence is 2/3; one split is kept with confidence exactly 2/3 and
\* another split of a key is discarded for a lower confidence.
C5_Witness ==
  /\ min_confidence.num > 0
  /\ \E p \in RulesReturned : RatEq(p[1].confidence, min_confidence)
  /\ \E c \in CallsReturned : \E I \in DOMAIN c[1] : \E A \in SUBSET I \ {{}, I} :
       /\ A \in DOMAIN c[1] /\ (I \ A) \in DOMAIN c[1]
       /\ c[1][A].num > 0
       /\ RatLt(RatDiv(c[1][I], c[1][A]), min_confidence)

\* C6: every rule returned has a non-empty antecedent and consequent that
\* are disjoint and whose union is a key of size >= 2; its support is the
\* mapping's support of the union, its confidence is
\* support(union)/support(antecedent), and its lift is
\* support(union)/(support(antecedent)*support(consequent)) wherever that
\* quotient is defined.
C6_RulesWellFormed ==
  \A p \in RulesReturned :
    LET r == p[1]
        freq == p[2]
        whole == r.antecedent \cup r.consequent
    IN  /\ r.antecedent # {} /\ r.consequent # {}
        /\ r.antecedent \cap r.consequent = {}
        /\ whole \in DOMAIN freq /\ Cardinality(whole) >= 2
        /\ r.antecedent \in DOMAIN freq /\ r.consequent \in DOMAIN freq
        /\ r.support = freq[whole]
        /\ freq[r.antecedent].num # 0
        /\ RatEq(RatMul(r.confidence, freq[r.antecedent]), freq[whole])
        /\ freq[r.consequent].num # 0 =>
             RatEq(RatMul(r.lift, RatMul(freq[r.antecedent], freq[r.consequent])),
                   freq[whole])

\* A rule with a two-item antecedent whose support differs from the
\* support of the whole itemset.
C6_Witness ==
  \E p \in RulesReturned :
    /\ Cardinality(p[1].antecedent) = 2
    /\ ~RatEq(p[2][p[1].antecedent], p[1].support)
    /\ p[2][p[1].consequent].num # 0

\* The (antecedent, consequent) pairs the claim asks for: non-empty,
\* disjoint, the union and both sides keys, and
\* support(union)/support(antecedent) >= min_confidence (a quotient that is
\* defined, i.e. support(antecedent) # 0).
PairsAskedFor(freq) ==
  {q \in Itemsets \X Itemsets :
     /\ q[1] \cap q[2] = {}
     /\ (q[1] \cup q[2]) \in DOMAIN freq
     /\ q[1] \in DOMAIN freq /\ q[2] \in DOMAIN freq
     /\ freq[q[1]].num # 0
     /\ RatLeq(min_confidence, RatDiv(freq[q[1] \cup q[2]], freq[q[1]]))}

RECURSIVE Pow2(_)
Pow2(e) == IF e = 0 THEN 1 ELSE 2 * Pow2(e - 1)

\* C7: the rules returned are exactly, each once, the pairs asked for; no
\* call raises a fault; and on a mapping a miner returned, with
\* min_confidence = 0, every key of size k has exactly 2^k - 2 rules.
C7_ExactlyTheSplits ==
  /\ pc # "raised"
  /\ \A c \in CallsReturned :
       /\ \A r \in BagToSet(c[2]) :
            /\ CopiesIn(r, c[2]) = 1
            /\ <<r.antecedent, r.consequent>> \in PairsAskedFor(c[1])
       /\ \A q \in PairsAskedFor(c[1]) :
            Cardinality({r \in BagToSet(c[2]) :
                           r.antecedent = q[1] /\ r.consequent = q[2]}) = 1
  /\ (pc = "done" /\ min_confidence.num = 0) =>
       \A c \in CallsReturned : \A I \in DOMAIN c[1] :
         Cardinality({r \in BagToSet(c[2]) : r.antecedent \cup r.consequent = I})
           = Pow2(Cardinality(I)) - 2

\* Both miners returned a key of three items, and with min_confidence = 0
\* it has six rules.
C7_Witness ==
  /\ pc = "done"
  /\ min_confidence.num = 0
  /\ \E I \in DOMAIN eclat_freq :
       /\ Cardinality(I) = 3
       /\ Cardinality({r \in BagToSet(eclat_rules) :
                         r.antecedent \cup r.consequent = I}) = 6

\* what apriori and eclat return from the loop's / the search's final state
AprioriReturnValue ==
  IF n = 0 THEN EmptyMap ELSE [I \in DOMAIN L |-> Rat(L[I], n)]
EclatReturnValue ==
  IF n = 0 THEN EmptyMap
  ELSE [I \in DOMAIN results |-> Rat(Cardinality(results[I]), n)]

\* C8: the two harnesses return the same frequent_itemsets and the same
\* rules (as bags), and each returns what its miner returned and what its
\* rule generator returns on that mapping with min_confidence.
C8_HarnessesAgree ==
  pc = "done" =>
    /\ apriori_freq = eclat_freq
    /\ apriori_rules = eclat_rules
    /\ apriori_freq = AprioriReturnValue
    /\ eclat_freq = EclatReturnValue
    /\ apriori_rules =
         AprioriGenerateAssociationRules(apriori_freq, min_confidence).rules
    /\ eclat_rules =
         EclatGenerateAssociationRules(eclat_freq, min_confidence).rules

\* Both harnesses returned rules, and min_confidence discarded a split.
C8_Witness ==
  /\ pc = "done"
  /\ BagToSet(apriori_rules) # {}
  /\ BagCardinality(apriori_rules) <
       BagCardinality(
         AprioriGenerateAssociationRules(apriori_freq, Rat(0, 1)).rules)

\* C9: with zero transactions no fault is raised, every call returns (the
\* run can always go on until both harnesses returned), both mappings are
\* empty and both rule lists are empty.
C9_EmptyInput ==
  n = 0 =>
    /\ fault = "none" /\ pc # "raised"
    /\ pc # "done" => ENABLED Next
    /\ apriori_freq = EmptyMap /\ eclat_freq = EmptyMap
    /\ apriori_rules = EmptyBag /\ eclat_rules = EmptyBag

\* Both harnesses returned on an empty transaction list.
C9_Witness == n = 0 /\ pc = "done"

\* The splits of the keys of freq with both sides keys.
SplitsPresent(freq) ==
  {q \in Itemsets \X Itemsets :
     /\ q[1] \cap q[2] = {}
     /\ (q[1] \cup q[2]) \in DOMAIN freq
     /\ q[1] \in DOMAIN freq /\ q[2] \in DOMAIN freq}

Emitted(rules, q) ==
  {r \in BagToSet(rules) : r.antecedent = q[1] /\ r.consequent = q[2]}

\* C10 as stated: no division fault, and every split whose lift denominator
\* support(antecedent)*support(consequent) is 0 is emitted with lift 0
\* (unless its confidence is defined and below min_confidence).
C10_ZeroDenominatorEmitted ==
  /\ pc # "raised"
  /\ \A c \in CallsReturned : \A q \in SplitsPresent(c[1]) :
       LET supp_XY == c[1][q[1] \cup q[2]]
           supp_X == c[1][q[1]]
           supp_Y == c[1][q[2]]
       IN  (/\ supp_X.num = 0 \/ supp_Y.num = 0
            /\ supp_X.num # 0 => RatLeq(min_confidence, RatDiv(supp_XY, supp_X)))
           => \E r \in Emitted(c[2], q) : r.lift.num = 0

\* C10 amended: no division fault; a split whose antecedent has support 0
\* is skipped; a split whose antecedent has non-zero support, whose
\* consequent has support 0 and whose confidence is >= min_confidence is
\* emitted, once, with lift 0.
C10_ZeroDenominatorResolved ==
  /\ pc # "raised" /\ fault = "none"
  /\ \A c \in CallsReturned : \A q \in SplitsPresent(c[1]) :
       LET supp_XY == c[1][q[1] \cup q[2]]
           supp_X == c[1][q[1]]
           supp_Y == c[1][q[2]]
       IN  /\ supp_X.num = 0 => Emitted(c[2], q) = {}
           /\ (/\ supp_X.num # 0 /\ supp_Y.num = 0
               /\ RatLeq(min_confidence, RatDiv(supp_XY, supp_X)))
              => /\ Cardinality(Emitted(c[2], q)) = 1
                 /\ \A r \in Emitted(c[2], q) :
                      r.lift.num = 0 /\ CopiesIn(r, c[2]) = 1

\* One mapping with a split skipped for an antecedent of support 0 and a
\* rule emitted with lift 0 for a consequent of support 0.
C10_Witness ==
  \E c \in CallsReturned :
    /\ \E q \in SplitsPresent(c[1]) : c[1][q[1]].num = 0
    /\ \E q \in SplitsPresent(c[1]) :
         /\ c[1][q[2]].num = 0 /\ c[1][q[1]].num # 0
         /\ c[1][q[1] \cup q[2]].num # 0
         /\ Emitted(c[2], q) # {}

\* The indices (from 0) of the transactions containing I.
TidsContaining(I) == {tid \in 0..(n - 1) : I \subseteq transactions[tid + 1]}

\* An activation dfs(prefix, prefix_tids, items) as C11 asks for it.
DfsCallInOrder(f) ==
  /\ \A j \in 1..Len(f.items) :
       /\ Cardinality(f.items[j][1]) = 1
       /\ \A item \in f.prefix : item < SortKey(f.items[j][1])
       /\ \A h \in 1..(j - 1) : SortKey(f.items[h][1]) < SortKey(f.items[j][1])
  /\ f.prefix_tids = TidsContaining(f.prefix)
  /\ f.prefix # {} => Cardinality(f.prefix_tids) >= min_support_count

\* C11: during a run of eclat every activation of dfs holds only candidates
\* that come strictly after every item of its prefix in the sorted order,
\* its prefix_tids is exactly the set of indices of the transactions
\* containing the prefix, and a non-empty prefix has at least
\* min_support_count TIDs; results is written only on entering dfs for the
\* written itemset, and never for a key it already holds.
C11_EachItemsetOnce ==
  /\ [](pc = "eclat_dfs" => \A d \in 1..Len(stack) : DfsCallInOrder(stack[d]))
  /\ [][pc = "eclat_dfs" =>
          /\ Len(stack') > Len(stack) =>
               /\ stack'[Len(stack')].prefix \notin DOMAIN results
               /\ DOMAIN results' =
                    DOMAIN results \cup {stack'[Len(stack')].prefix}
          /\ Len(stack') <= Len(stack) => results' = results]_vars

\* Three nested activations: dfs for a two-item prefix, entered with a
\* candidate left to try, below dfs for a one-item prefix.
C11_Witness ==
  /\ pc = "eclat_dfs"
  /\ Len(stack) >= 3
  /\ Cardinality(stack[Len(stack)].prefix) = 2
  /\ Len(stack[Len(stack)].items) = 1
  /\ stack[Len(stack)].prefix \in DOMAIN results

\* The size of the largest transaction (n >= 1).
LargestTransaction ==
  CHOOSE m \in 0..Cardinality(Items) :
    /\ \A i \in 1..n : Cardinality(transactions[i]) <= m
    /\ \E i \in 1..n : Cardinality(transactions[i]) = m

\* C12: in every iteration k >= 2 of apriori's loop the candidates counted
\* have size exactly k and every size-(k-1) subset of each is in L(k-1);
\* every itemset added to L(k) is a counted candidate of size exactly k; the
\* loop goes on while L(k-1) is non-empty and is left at the first empty
\* level, which is no later than level 1 + the size of the largest
\* transaction.  (Lk holds level k - 1 when an iteration begins; candidates
\* is a set, so it holds no duplicates.)
C12_PruneBeforeCount ==
  /\ [](pc = "apriori_loop" =>
          /\ k >= 2
          /\ k - 1 <= 1 + LargestTransaction
          /\ \A I \in DOMAIN Lk : Cardinality(I) = k - 1)
  /\ [][pc = "apriori_loop" =>
          IF DOMAIN Lk = {}
          THEN pc' # "apriori_loop" /\ k' = k /\ L' = L
          ELSE /\ pc' = "apriori_loop" /\ k' = k + 1
               /\ \A c \in candidates' :
                    /\ Cardinality(c) = k
                    /\ \A subset \in Combinations(c, k - 1) : subset \in DOMAIN Lk
               /\ DOMAIN Lk' \subseteq candidates'
               /\ \A I \in DOMAIN Lk' : Cardinality(I) = k
               /\ DOMAIN L' = DOMAIN L \cup DOMAIN Lk']_vars

\* Iteration k = 3 has run on two frequent pairs: their union was pruned
\* (its third pair is not frequent), so no candidate was counted.
C12_Witness ==
  /\ pc = "apriori_loop"
  /\ k = 4
  /\ candidates = {}
  /\ Cardinality({I \in DOMAIN L : Cardinality(I) = 2}) = 2

====
